---- MODULE Spec2Model ----
(***************************************************************************)
(* Model of the round-robin load balancer of src/loadbalancer/main.go:     *)
(* the Backend records, the ServerPool and its cursor, the request path    *)
(* (loadBalancer, GetNextPeer, the proxies' ErrorHandler), the health      *)
(* monitor goroutine (HealthCheck) and the /health and /status handlers.   *)
(*                                                                         *)
(* Every access to shared memory (a Backend under its mutex, an unlocked   *)
(* read of a Backend field, an atomic load or store of the cursor) is one  *)
(* step, so the goroutines interleave as the Go scheduler lets them.       *)
(* Time is counted in whole seconds.  The durations of the monitor's       *)
(* sleeps are not measured against the clock: the scheduler may delay a    *)
(* goroutine for any time, so a sweep may begin at any moment.             *)
(***************************************************************************)
EXTENDS Integers, Sequences, FiniteSets, TLC

\* ---------------------------------------------------------------- constants
\* Program constants.
FailureThreshold == 3
CooldownSecs == 30
DefaultBackends == 3
ShutdownSecs == 30

\* Bounds of the model: the cap on FailureCount, on the forward failures of
\* one request, on the count of requests begun, and on the comma-separated
\* parts of BACKENDS.
MaxFail == 4
MaxHops == 2
MaxRequests == 3
MaxParts == 2

\* The goroutines serving "/" and the instants the clock shows: time.Since
\* is below 30s between the first two and between the last two, and
\* exactly 30s from the first to the last.
Clients == {1, 2}
Instants == {0, 29, 30}
Never == 0 - 1

VARIABLES
    backends,   \* ServerPool.backends: index -> [Alive, FailureCount, LastCheck]
    urls,       \* index -> Backend.URL (fixed at startup)
    current,    \* ServerPool.current
    now,        \* the clock read by time.Now() and time.Since()
    req,        \* the request-handling goroutines (route "/")
    hc,         \* the health monitor goroutine
    hh,         \* a goroutine serving "/health"
    st,         \* a goroutine serving "/status"
    refusing,   \* environment: the backends that refuse connections
    call,       \* the last method call made on a lone Backend record
    cfg,        \* the environment of the process: BACKENDS, TLS_CERT, TLS_KEY
    srv,        \* main, the listener goroutine and the process's exit
    tripped,    \* history: when a forward failure last opened the breaker
    seenUp,     \* history: handlers that ran while some backend was eligible
    snap,       \* history: what changed while /status or /health ran
    alt,        \* history: alternatives eligible all through a retry selection
    routed,     \* history: the latest consecutive routings, all backends up
    reqNo       \* history: number of requests begun

prog == <<backends, urls, current, now, req, hc, hh, st, refusing, call, cfg, srv>>
hist == <<tripped, seenUp, snap, alt, routed, reqNo>>
vars == <<prog, hist>>

\* len(s.backends) and the indices of the pool
N == Cardinality(DOMAIN urls)
Idx == 0 .. (N - 1)
NoPeer == 0 - 1

\* ------------------------------------------------------------ Backend record
\* SetAlive that forgets to reset the counter on success.
SetAliveKeepsCount(b, alive, t) ==
    [Alive |-> alive,
     FailureCount |-> IF ~alive THEN b.FailureCount + 1 ELSE b.FailureCount,
     LastCheck |-> t]

\* SetAlive that leaves LastCheck as it was.
SetAliveNoStamp(b, alive, t) ==
    [Alive |-> alive,
     FailureCount |-> IF ~alive THEN b.FailureCount + 1 ELSE 0,
     LastCheck |-> b.LastCheck]

\* Backend.SetAlive: Alive := alive; FailureCount++ or := 0; LastCheck := now.
SetAlive(b, alive, t) ==
    [Alive |-> alive,
     FailureCount |-> IF ~alive THEN b.FailureCount + 1 ELSE 0,
     LastCheck |-> t]

\* The cooldown test with <= in place of <.
WithinCooldownInclusive(lastCheck, t) == t - lastCheck <= CooldownSecs

\* time.Since(lastCheck) < 30*time.Second, evaluated at time t
WithinCooldown(lastCheck, t) == t - lastCheck < CooldownSecs

\* b.FailureCount > 3
OverThreshold(failureCount) == failureCount > FailureThreshold

\* IsAlive of a half-open breaker: true once the cooldown has expired.
IsAliveHalfOpen(b, t) ==
    IF OverThreshold(b.FailureCount)
    THEN ~WithinCooldown(b.LastCheck, t)
    ELSE b.Alive

\* Backend.IsAlive
IsAlive(b, t) ==
    IF OverThreshold(b.FailureCount) /\ WithinCooldown(b.LastCheck, t)
    THEN FALSE
    ELSE b.Alive

\* --------------------------------------------------------------- ServerPool
\* NextIndex without the + 1.
NextIndexSame(cur) == cur % N

\* ServerPool.NextIndex
NextIndex(cur) == (cur + 1) % N

\* ServerPool.MarkBackendStatus: SetAlive on the first record whose URL
\* string equals backendUrl; no record is touched when there is none.
FirstWithURL(u) ==
    IF \E i \in Idx : urls[i] = u
    THEN CHOOSE i \in Idx : urls[i] = u /\ \A j \in Idx : urls[j] = u => i <= j
    ELSE NoPeer

MarkBackendStatus(pool, u, alive, t) ==
    IF FirstWithURL(u) = NoPeer
    THEN pool
    ELSE [pool EXCEPT ![FirstWithURL(u)] = SetAlive(pool[FirstWithURL(u)], alive, t)]

\* countHealthyBackends, when nothing runs between its IsAlive calls
CountHealthy(pool, t) == Cardinality({i \in DOMAIN pool : IsAlive(pool[i], t)})

Eligible == {i \in Idx : IsAlive(backends[i], now)}

\* A failure is recorded only while the counter is below the model's cap.
CanFail(i) == backends[i].FailureCount < MaxFail

\* ----------------------------------------------------------------- startup
\* main: one record per configured URL, Alive, LastCheck = time.Now().
Pool(n) == [i \in 0 .. (n - 1) |-> i + 1]
DefaultPool == Pool(DefaultBackends)
Pools == {Pool(1), Pool(2)}

NewBackend == [Alive |-> TRUE, FailureCount |-> 0, LastCheck |-> 0]

IdleReq ==
    [pc |-> "idle", next |-> 0, i |-> 0, peer |-> NoPeer, failed |-> NoPeer,
     selects |-> 0, attempts |-> 0, fails |-> 0, resp |-> "none"]

IdleHealth == [pc |-> "idle", i |-> 0, count |-> 0, code |-> 0, total |-> 0]

IdleStatus ==
    [pc |-> "idle", i |-> 0, healthy |-> 0, index |-> 0, entry |-> <<>>,
     entries |-> <<>>, code |-> 0, status |-> "none", total |-> 0]

NoCall == [op |-> "none"]

\* The process once main waits on the stop channel and ListenAndServeTLS
\* serves, and an environment that leads there with the given pool.
NoExit == 0 - 1

Serving ==
    [main |-> "wait", list |-> <<>>, k |-> 0, lis |-> "serving", mon |-> TRUE,
     stop |-> FALSE, t0 |-> 0, exit |-> NoExit]

ConfigOf(pool) ==
    [set |-> TRUE,
     parts |-> [i \in 1 .. Cardinality(DOMAIN pool) |->
                  IF i > 1 /\ pool[i - 1] = pool[0] THEN "dup" ELSE "good"],
     cert |-> TRUE, key |-> TRUE, listenOk |-> TRUE]

InitPool(pool) ==
    /\ urls = pool
    /\ backends = [i \in DOMAIN pool |-> NewBackend]
    /\ current = 0
    /\ now = 0
    /\ req = [c \in Clients |-> IdleReq]
    /\ hc = [pc |-> "sleep", idx |-> 0]
    /\ hh = IdleHealth
    /\ st = IdleStatus
    /\ refusing = {}
    /\ call = NoCall
    /\ cfg = ConfigOf(pool)
    /\ srv = Serving

InitHist ==
    /\ tripped = [i \in DOMAIN urls |-> Never]
    /\ seenUp = [req |-> {}, hh |-> FALSE]
    /\ snap = [moved |-> FALSE, up |-> 0]
    /\ alt = [c \in Clients |-> {}]
    /\ routed = [cur |-> 0, up |-> {}, down |-> {}, log |-> <<>>]
    /\ reqNo = 0

Init == (\E pool \in Pools : InitPool(pool)) /\ InitHist

\* ------------------------------------------------------------- request path
\* GetNextPeer that scans from index 0 whatever the cursor is.
ReqStartFromZero(c) ==
    /\ req[c].pc = "idle"
    /\ req' = [req EXCEPT ![c] =
                 [IdleReq EXCEPT !.pc = "scan", !.selects = 1,
                                 !.next = 0, !.i = 0]]
    /\ UNCHANGED <<backends, urls, current, now, hc, hh, st, refusing, call, cfg, srv>>

\* loadBalancer calls GetNextPeer, whose NextIndex loads the cursor.
ReqStart(c) ==
    /\ req[c].pc = "idle"
    /\ req' = [req EXCEPT ![c] =
                 [IdleReq EXCEPT !.pc = "scan", !.selects = 1,
                                 !.next = NextIndex(current),
                                 !.i = NextIndex(current)]]
    /\ UNCHANGED <<backends, urls, current, now, hc, hh, st, refusing, call, cfg, srv>>

\* GetNextPeer that falls back to the last backend scanned when none is
\* alive, instead of returning nil.
ReqScanFallback(c) ==
    /\ req[c].pc = "scan"
    /\ LET idx == req[c].i % N IN
       IF IsAlive(backends[idx], now) \/ req[c].i + 1 >= N + req[c].next
       THEN req' = [req EXCEPT ![c].pc = "store", ![c].peer = idx,
                               ![c].next = 0, ![c].i = 0]
       ELSE req' = [req EXCEPT ![c].i = req[c].i + 1]
    /\ UNCHANGED <<backends, urls, current, now, hc, hh, st, refusing, call, cfg, srv>>

\* GetNextPeer that stores and returns i in place of i % len(s.backends).
ReqScanNoWrap(c) ==
    /\ req[c].pc = "scan"
    /\ LET idx == req[c].i % N IN
       IF IsAlive(backends[idx], now)
       THEN req' = [req EXCEPT ![c].pc = "store", ![c].peer = req[c].i,
                               ![c].next = 0, ![c].i = 0]
       ELSE IF req[c].i + 1 < N + req[c].next
            THEN req' = [req EXCEPT ![c].i = req[c].i + 1]
            ELSE req' = [req EXCEPT ![c].pc = "done", ![c].peer = NoPeer,
                                    ![c].next = 0, ![c].i = 0,
                                    ![c].resp = "503"]
    /\ UNCHANGED <<backends, urls, current, now, hc, hh, st, refusing, call, cfg, srv>>

\* GetNextPeer that stores the first index scanned when it finds no backend.
ReqScanStoresFirst(c) ==
    /\ req[c].pc = "scan"
    /\ LET idx == req[c].i % N IN
       IF IsAlive(backends[idx], now)
       THEN /\ req' = [req EXCEPT ![c].pc = "store", ![c].peer = idx,
                                  ![c].next = 0, ![c].i = 0]
            /\ current' = current
       ELSE IF req[c].i + 1 < N + req[c].next
            THEN /\ req' = [req EXCEPT ![c].i = req[c].i + 1]
                 /\ current' = current
            ELSE /\ req' = [req EXCEPT ![c].pc = "done", ![c].peer = NoPeer,
                                       ![c].next = 0, ![c].i = 0,
                                       ![c].resp = "503"]
                 /\ current' = req[c].next
    /\ UNCHANGED <<backends, urls, now, hc, hh, st, refusing, call, cfg, srv>>

\* GetNextPeer, one iteration of its loop: IsAlive on backends[i % N].  When
\* the loop ends without a peer GetNextPeer returns nil, and the caller
\* (loadBalancer or ErrorHandler) answers 503.
ReqScan(c) ==
    /\ req[c].pc = "scan"
    /\ LET idx == req[c].i % N IN
       IF IsAlive(backends[idx], now)
       THEN req' = [req EXCEPT ![c].pc = "store", ![c].peer = idx,
                               ![c].next = 0, ![c].i = 0]
       ELSE IF req[c].i + 1 < N + req[c].next
            THEN req' = [req EXCEPT ![c].i = req[c].i + 1]
            ELSE req' = [req EXCEPT ![c].pc = "done", ![c].peer = NoPeer,
                                    ![c].next = 0, ![c].i = 0,
                                    ![c].resp = "503"]
    /\ UNCHANGED <<backends, urls, current, now, hc, hh, st, refusing, call, cfg, srv>>

\* ErrorHandler's test: peer != nil && peer.URL.String() != backendUrl.String()
\* (failed is the backend whose proxy runs the handler; loadBalancer has none)
MayForward(peer, failed) == failed = NoPeer \/ urls[peer] # urls[failed]

\* GetNextPeer that returns the peer without storing the cursor.
ReqStoreNoCursor(c) ==
    /\ req[c].pc = "store"
    /\ IF req[c].failed = NoPeer \/ urls[req[c].peer] # urls[req[c].failed]
       THEN req' = [req EXCEPT ![c].pc = "forward",
                               ![c].attempts = req[c].attempts + 1]
       ELSE req' = [req EXCEPT ![c].pc = "done", ![c].resp = "503"]
    /\ UNCHANGED <<backends, urls, current, now, hc, hh, st, refusing, call, cfg, srv>>

\* GetNextPeer: atomic.StoreUint64(&s.current, idx) and return.  The caller
\* then forwards: loadBalancer always, ErrorHandler when MayForward.
ReqStore(c) ==
    /\ req[c].pc = "store"
    /\ current' = req[c].peer
    /\ IF MayForward(req[c].peer, req[c].failed)
       THEN req' = [req EXCEPT ![c].pc = "forward",
                               ![c].attempts = req[c].attempts + 1]
       ELSE req' = [req EXCEPT ![c].pc = "done", ![c].resp = "503"]
    /\ UNCHANGED <<backends, urls, now, hc, hh, st, refusing, call, cfg, srv>>

\* peer.ReverseProxy.ServeHTTP succeeds: the backend's response is streamed.
ReqForwardOk(c) ==
    /\ req[c].pc = "forward"
    /\ req' = [req EXCEPT ![c].pc = "done", ![c].resp = "proxied"]
    /\ UNCHANGED <<backends, urls, current, now, hc, hh, st, refusing, call, cfg, srv>>

\* The forward fails: the peer's proxy.ErrorHandler runs and calls
\* serverPool.MarkBackendStatus(backendUrl, false).
ReqForwardFail(c) ==
    /\ req[c].pc = "forward"
    /\ req[c].fails < MaxHops
    /\ CanFail(FirstWithURL(urls[req[c].peer]))
    /\ backends' = MarkBackendStatus(backends, urls[req[c].peer], FALSE, now)
    /\ req' = [req EXCEPT ![c].pc = "retry", ![c].failed = req[c].peer,
                          ![c].peer = NoPeer, ![c].fails = req[c].fails + 1]
    /\ UNCHANGED <<urls, current, now, hc, hh, st, refusing, call, cfg, srv>>

\* ErrorHandler: peer := serverPool.GetNextPeer(), the load of the cursor.
ReqRetry(c) ==
    /\ req[c].pc = "retry"
    /\ req' = [req EXCEPT ![c].pc = "scan",
                          ![c].selects = req[c].selects + 1,
                          ![c].next = NextIndex(current),
                          ![c].i = NextIndex(current)]
    /\ UNCHANGED <<backends, urls, current, now, hc, hh, st, refusing, call, cfg, srv>>

\* The response is written; the goroutine is free for the next request.
ReqFinish(c) ==
    /\ req[c].pc = "done"
    /\ req' = [req EXCEPT ![c] = IdleReq]
    /\ UNCHANGED <<backends, urls, current, now, hc, hh, st, refusing, call, cfg, srv>>

\* ----------------------------------------------------------- health monitor
\* time.Sleep is over, or ticker.C delivers a tick: HealthCheck begins.
HcWake ==
    /\ hc.pc = "sleep"
    /\ hc' = [pc |-> "chkAlive", idx |-> 0]
    /\ UNCHANGED <<backends, urls, current, now, req, hh, st, refusing, call, cfg, srv>>

\* HealthCheck line 102, first operand: !b.IsAlive()
HcCheckAlive ==
    /\ hc.pc = "chkAlive"
    /\ hc' = [hc EXCEPT !.pc = IF IsAlive(backends[hc.idx], now)
                               THEN "probe" ELSE "chkCount"]
    /\ UNCHANGED <<backends, urls, current, now, req, hh, st, refusing, call, cfg, srv>>

\* line 102, second operand: b.FailureCount > 3, read without the lock
HcCheckCount ==
    /\ hc.pc = "chkCount"
    /\ hc' = [hc EXCEPT !.pc = IF OverThreshold(backends[hc.idx].FailureCount)
                               THEN "chkSince" ELSE "probe"]
    /\ UNCHANGED <<backends, urls, current, now, req, hh, st, refusing, call, cfg, srv>>

\* The range loop moves to the next backend; after the last one HealthCheck
\* returns and the goroutine waits for the next tick.
HcAdvance(h) ==
    IF h.idx + 1 < N
    THEN [pc |-> "chkAlive", idx |-> h.idx + 1]
    ELSE [pc |-> "sleep", idx |-> 0]

\* HealthCheck that skips a backend over the threshold whatever the time
\* since its last check.
HcCheckSinceAlwaysSkip ==
    /\ hc.pc = "chkSince"
    /\ hc' = HcAdvance(hc)
    /\ UNCHANGED <<backends, urls, current, now, req, hh, st, refusing, call, cfg, srv>>

\* HealthCheck without the continue of line 104: the probe is always sent.
HcCheckSinceNoSkip ==
    /\ hc.pc = "chkSince"
    /\ hc' = [hc EXCEPT !.pc = "probe"]
    /\ UNCHANGED <<backends, urls, current, now, req, hh, st, refusing, call, cfg, srv>>

\* line 102, third operand: time.Since(b.LastCheck) < 30s, read without the
\* lock; when it holds the backend is skipped (continue).
HcCheckSince ==
    /\ hc.pc = "chkSince"
    /\ hc' = IF WithinCooldown(backends[hc.idx].LastCheck, now)
             THEN HcAdvance(hc)
             ELSE [hc EXCEPT !.pc = "probe"]
    /\ UNCHANGED <<backends, urls, current, now, req, hh, st, refusing, call, cfg, srv>>

\* client.Get(b.URL + "/health") returns.  An error or a non-200 answer
\* calls b.SetAlive(false), a 200 answer calls b.SetAlive(true).
ProbeOutcomes == {"200", "non200", "error"}

\* HealthCheck that returns at the first failing probe.
HcProbeResultAbort(outcome) ==
    /\ hc.pc = "probe"
    /\ outcome # "200" => CanFail(hc.idx)
    /\ backends' = [backends EXCEPT ![hc.idx] =
                      SetAlive(backends[hc.idx], outcome = "200", now)]
    /\ hc' = IF outcome = "200" THEN HcAdvance(hc) ELSE [pc |-> "sleep", idx |-> 0]
    /\ UNCHANGED <<urls, current, now, req, hh, st, refusing, call, cfg, srv>>

HcProbeResult(outcome) ==
    /\ hc.pc = "probe"
    /\ outcome # "200" => CanFail(hc.idx)
    /\ backends' = [backends EXCEPT ![hc.idx] =
                      SetAlive(backends[hc.idx], outcome = "200", now)]
    /\ hc' = HcAdvance(hc)
    /\ UNCHANGED <<urls, current, now, req, hh, st, refusing, call, cfg, srv>>

\* ------------------------------------------------------------------- clock
Tick ==
    /\ \E t \in Instants : t > now
    /\ now' = CHOOSE t \in Instants : t > now /\ \A u \in Instants : u > now => t <= u
    /\ UNCHANGED <<backends, urls, current, req, hc, hh, st, refusing, call, cfg, srv>>

\* ------------------------------------------------------------ /health route
\* healthHandler calls countHealthyBackends.
HhStart ==
    /\ hh.pc = "idle"
    /\ hh' = [IdleHealth EXCEPT !.pc = "count"]
    /\ UNCHANGED <<backends, urls, current, now, req, hc, st, refusing, call, cfg, srv>>

\* healthHandler that answers 503 unless two backends or more are healthy.
HealthAnswerOffByOne(count) ==
    [pc |-> "done", i |-> 0, count |-> count,
     code |-> IF count <= 1 THEN 503 ELSE 200, total |-> N]

\* healthHandler's answer once countHealthyBackends has returned count
HealthAnswer(count) ==
    [pc |-> "done", i |-> 0, count |-> count,
     code |-> IF count = 0 THEN 503 ELSE 200, total |-> N]

\* countHealthyBackends, one iteration: b.IsAlive().  After the last one
\* healthHandler writes 503 when the count is 0, else 200 with count/len.
HhCount ==
    /\ hh.pc = "count"
    /\ LET count == hh.count + (IF IsAlive(backends[hh.i], now) THEN 1 ELSE 0) IN
       hh' = IF hh.i + 1 < N
             THEN [hh EXCEPT !.i = hh.i + 1, !.count = count]
             ELSE HealthAnswer(count)
    /\ UNCHANGED <<backends, urls, current, now, req, hc, st, refusing, call, cfg, srv>>

HhFinish ==
    /\ hh.pc = "done"
    /\ hh' = IdleHealth
    /\ UNCHANGED <<backends, urls, current, now, req, hc, st, refusing, call, cfg, srv>>

\* ------------------------------------------------------------ /status route
\* statusHandler: TotalBackends = len(backends), then countHealthyBackends.
StStart ==
    /\ st.pc = "idle"
    /\ st' = [IdleStatus EXCEPT !.pc = "count", !.total = N]
    /\ UNCHANGED <<backends, urls, current, now, req, hc, hh, refusing, call, cfg, srv>>

\* countHealthyBackends with the test negated.
StCountNegated ==
    /\ st.pc = "count"
    /\ LET healthy == st.healthy + (IF IsAlive(backends[st.i], now) THEN 0 ELSE 1) IN
       st' = IF st.i + 1 < N
             THEN [st EXCEPT !.i = st.i + 1, !.healthy = healthy]
             ELSE [st EXCEPT !.pc = "cursor", !.i = 0, !.healthy = healthy]
    /\ UNCHANGED <<backends, urls, current, now, req, hc, hh, refusing, call, cfg, srv>>

\* countHealthyBackends, one iteration: b.IsAlive()
StCount ==
    /\ st.pc = "count"
    /\ LET healthy == st.healthy + (IF IsAlive(backends[st.i], now) THEN 1 ELSE 0) IN
       st' = IF st.i + 1 < N
             THEN [st EXCEPT !.i = st.i + 1, !.healthy = healthy]
             ELSE [st EXCEPT !.pc = "cursor", !.i = 0, !.healthy = healthy]
    /\ UNCHANGED <<backends, urls, current, now, req, hc, hh, refusing, call, cfg, srv>>

\* CurrentIndex taken from NextIndex() in place of the cursor.
StCursorNext ==
    /\ st.pc = "cursor"
    /\ st' = [st EXCEPT !.pc = "read", !.index = NextIndex(current)]
    /\ UNCHANGED <<backends, urls, current, now, req, hc, hh, refusing, call, cfg, srv>>

\* CurrentIndex: int(atomic.LoadUint64(&serverPool.current))
StCursor ==
    /\ st.pc = "cursor"
    /\ st' = [st EXCEPT !.pc = "read", !.index = current]
    /\ UNCHANGED <<backends, urls, current, now, req, hc, hh, refusing, call, cfg, srv>>

\* LastCheck.Format(time.RFC3339): the time to the second; the model's
\* times are whole seconds, which the text denotes by their number.
FormatRFC3339(t) == t

\* The loop body under b.mux.RLock(): the BackendStatus of record i.
StRead ==
    /\ st.pc = "read"
    /\ st' = [st EXCEPT !.pc = "ovCount",
                        !.entry = [url |-> urls[st.i],
                                   alive |-> backends[st.i].Alive,
                                   failure_count |-> backends[st.i].FailureCount,
                                   last_check |-> FormatRFC3339(backends[st.i].LastCheck)]]
    /\ UNCHANGED <<backends, urls, current, now, req, hc, hh, refusing, call, cfg, srv>>

\* response.Backends = append(.., backendStatus); after the last record the
\* status is "degraded" with 503 when HealthyBackends is 0, and the JSON is
\* encoded.
StAppend(s, entry) ==
    IF s.i + 1 < N
    THEN [s EXCEPT !.pc = "read", !.i = s.i + 1, !.entry = <<>>,
                   !.entries = Append(s.entries, entry)]
    ELSE [s EXCEPT !.pc = "done", !.i = 0, !.entry = <<>>,
                   !.entries = Append(s.entries, entry),
                   !.code = IF s.healthy = 0 THEN 503 ELSE 200,
                   !.status = IF s.healthy = 0 THEN "degraded" ELSE "operational"]

\* line 353, first operand: b.FailureCount > 3, read after RUnlock
StOvCount ==
    /\ st.pc = "ovCount"
    /\ st' = IF OverThreshold(backends[st.i].FailureCount)
             THEN [st EXCEPT !.pc = "ovSince"]
             ELSE StAppend(st, st.entry)
    /\ UNCHANGED <<backends, urls, current, now, req, hc, hh, refusing, call, cfg, srv>>

\* line 353, second operand: time.Since(b.LastCheck) < 30s, read after
\* RUnlock; when it holds backendStatus.Alive = false.
StOvSince ==
    /\ st.pc = "ovSince"
    /\ st' = IF WithinCooldown(backends[st.i].LastCheck, now)
             THEN StAppend(st, [st.entry EXCEPT !.alive = FALSE])
             ELSE StAppend(st, st.entry)
    /\ UNCHANGED <<backends, urls, current, now, req, hc, hh, refusing, call, cfg, srv>>

StFinish ==
    /\ st.pc = "done"
    /\ st' = IdleStatus
    /\ UNCHANGED <<backends, urls, current, now, req, hc, hh, refusing, call, cfg, srv>>

\* ------------------------------------------- a lone Backend record's methods
\* The methods of Backend called on one record with any field values
\* (the fields are exported), at the times of RecTimes.
RecTimes == {0, 1, 29, 30, 31}

RecInit ==
    /\ \E a \in BOOLEAN, f \in 0 .. MaxFail :
          backends = [i \in {0} |-> [Alive |-> a, FailureCount |-> f, LastCheck |-> 0]]
    /\ urls = Pool(1)
    /\ current = 0
    /\ now = 0
    /\ req = [c \in Clients |-> IdleReq]
    /\ hc = [pc |-> "sleep", idx |-> 0]
    /\ hh = IdleHealth
    /\ st = IdleStatus
    /\ refusing = {}
    /\ call = NoCall
    /\ cfg = ConfigOf(urls)
    /\ srv = Serving

\* b.SetAlive(alive)
RecSetAlive(alive) ==
    /\ alive \/ CanFail(0)
    /\ backends' = [backends EXCEPT ![0] = SetAlive(backends[0], alive, now)]
    /\ call' = [op |-> "SetAlive", arg |-> alive, before |-> backends[0],
                at |-> now, result |-> FALSE]
    /\ UNCHANGED <<urls, current, now, req, hc, hh, st, refusing, cfg, srv>>

\* b.IsAlive()
RecIsAlive ==
    /\ call' = [op |-> "IsAlive", arg |-> FALSE, before |-> backends[0],
                at |-> now, result |-> IsAlive(backends[0], now)]
    /\ UNCHANGED <<backends, urls, current, now, req, hc, hh, st, refusing, cfg, srv>>

RecTick ==
    /\ \E t \in RecTimes : t > now /\ now' = t
    /\ UNCHANGED <<backends, urls, current, req, hc, hh, st, refusing, call, cfg, srv>>

\* ------------------------------------------------- the scripted environment
\* Backend B (index 1) of the default pool starts refusing connections some
\* time after the first request, and later serves again; A and C always
\* serve.  A refused connection fails a forward and fails a probe.
KillB ==
    /\ refusing = {}
    /\ reqNo >= 1
    /\ req[1].pc = "idle"
    /\ refusing' = {1}
    /\ UNCHANGED <<backends, urls, current, now, req, hc, hh, st, call, cfg, srv>>

ReviveB ==
    /\ refusing = {1}
    /\ refusing' = {}
    /\ UNCHANGED <<backends, urls, current, now, req, hc, hh, st, call, cfg, srv>>

\* Any backend may start refusing connections, or serve again, at any time.
EnvRefuse(i) ==
    /\ i \notin refusing
    /\ refusing' = refusing \cup {i}
    /\ UNCHANGED <<backends, urls, current, now, req, hc, hh, st, call, cfg, srv>>

EnvServe(i) ==
    /\ i \in refusing
    /\ refusing' = refusing \ {i}
    /\ UNCHANGED <<backends, urls, current, now, req, hc, hh, st, call, cfg, srv>>

EnvForwardOk(c) == req[c].peer \notin refusing /\ ReqForwardOk(c)
EnvForwardFail(c) == req[c].peer \in refusing /\ ReqForwardFail(c)
EnvProbeOk == hc.idx \notin refusing /\ HcProbeResult("200")
EnvProbeRefused == hc.idx \in refusing /\ HcProbeResult("error")
EnvProbeNon200 == hc.idx \in refusing /\ HcProbeResult("non200")

\* ------------------------------------------------------- history variables
\* A forward failure that leaves FailureCount above the threshold.
ObsTripped ==
    tripped' = [i \in Idx |->
                  IF \E c \in Clients :
                        /\ req[c].pc = "forward" /\ req'[c].pc = "retry"
                        /\ FirstWithURL(urls[req[c].peer]) = i
                        /\ OverThreshold(backends'[i].FailureCount)
                  THEN now
                  ELSE tripped[i]]

\* A handler is in seenUp once some backend was eligible while it ran.
ObsSeenUp ==
    seenUp' = [req |-> {c \in Clients :
                          /\ req'[c].pc # "idle"
                          /\ c \in seenUp.req \/ (req[c].pc # "done" /\ Eligible' # {})},
               hh |-> /\ hh'.pc # "idle"
                      /\ seenUp.hh \/ (hh.pc # "done" /\ Eligible' # {})]

\* snap.moved: some record's eligibility changed since statusHandler began;
\* snap.up: the number of eligible records when the response was written.
ObsSnap ==
    snap' = [moved |-> /\ st'.pc # "idle"
                       /\ snap.moved \/ (st.pc \notin {"idle", "done"} /\ Eligible' # Eligible),
             up |-> IF st'.pc # "done" THEN 0
                    ELSE IF st.pc # "done" THEN Cardinality(Eligible') ELSE snap.up]

\* The same for healthHandler.
ObsHealthSnap ==
    snap' = [moved |-> /\ hh'.pc # "idle"
                       /\ snap.moved \/ (hh.pc \notin {"idle", "done"} /\ Eligible' # Eligible),
             up |-> IF hh'.pc # "done" THEN 0
                    ELSE IF hh.pc # "done" THEN Cardinality(Eligible') ELSE snap.up]

\* snap.moved: the cursor was stored since statusHandler began.
ObsCursorSnap ==
    snap' = [moved |-> /\ st'.pc # "idle"
                       /\ snap.moved \/ (st.pc # "idle" /\ current' # current),
             up |-> 0]

\* snap.up: the backends the running sweep has skipped (line 104);
\* snap.moved: a probe of the running sweep has failed.
ObsSweep ==
    snap' = IF hc.pc = "sleep" /\ hc'.pc # "sleep"
            THEN [moved |-> FALSE, up |-> 0]
            ELSE [moved |-> snap.moved \/ (hc.pc = "probe" /\ hc' # hc /\ hc.idx \in refusing),
                  up |-> IF hc.pc = "chkSince" /\ hc' # hc /\ hc'.pc # "probe"
                         THEN snap.up + 1 ELSE snap.up]

\* snap.up: the time at which the running (or the last) sweep began.
ObsSweepStart ==
    snap' = IF hc.pc = "sleep" /\ hc'.pc # "sleep"
            THEN [moved |-> FALSE, up |-> now]
            ELSE snap

\* alt[c]: the backends other than the failed one that were eligible at
\* every moment of the ErrorHandler's selection (from its GetNextPeer call
\* to its return).
ObsAlt ==
    alt' = [c \in Clients |->
              IF req[c].pc = "retry" /\ req'[c].pc = "scan"
              THEN Eligible' \ {req[c].failed}
              ELSE IF req'[c].failed # NoPeer /\ req[c].pc \in {"scan", "store"}
                   THEN alt[c] \cap Eligible'
                   ELSE IF req'[c].pc = "done" THEN alt[c] ELSE {}]

\* alt[c]: the backends the request of handler c has been forwarded to.
ObsAttempted ==
    alt' = [c \in Clients |->
              IF req'[c].pc = "idle" THEN {}
              ELSE IF req[c].pc = "store" /\ req'[c].pc = "forward"
                   THEN alt[c] \cup {req[c].peer}
                   ELSE alt[c]]

\* routed.log: the latest selections (at most N), each with the cursor that
\* its NextIndex call loaded, the backend returned, the backends that were
\* eligible (up) and those that were ineligible (down) all through the
\* selection, and whether ErrorHandler made the selection.  routed.cur,
\* routed.up and routed.down follow the selection that is running.
Calling(c) == req[c].pc \in {"idle", "retry"} /\ req'[c].pc = "scan"
Selecting(c) == req[c].pc = "scan" /\ req'[c].pc = "store"

ObsRouted ==
    routed' = IF \E c \in Clients : Calling(c)
              THEN [routed EXCEPT !.cur = current, !.up = Eligible,
                                  !.down = Idx \ Eligible]
              ELSE IF \E c \in Clients : Selecting(c)
                   THEN LET c == CHOOSE d \in Clients : Selecting(d)
                            e == [cur |-> routed.cur,
                                  to |-> req'[c].peer,
                                  up |-> routed.up,
                                  down |-> routed.down,
                                  retry |-> req[c].failed # NoPeer]
                        IN [cur |-> 0, up |-> {}, down |-> {},
                            log |-> IF Len(routed.log) < N
                                    THEN Append(routed.log, e)
                                    ELSE Append(Tail(routed.log), e)]
                   ELSE [routed EXCEPT !.up = routed.up \cap Eligible',
                                       !.down = routed.down \ Eligible']

ObsReqNo ==
    reqNo' = IF \E c \in Clients : req[c].pc = "idle" /\ req'[c].pc = "scan"
             THEN (IF reqNo < MaxRequests THEN reqNo + 1 ELSE reqNo)
             ELSE reqNo

\* ----------------------------------------------------------- specifications
ReqStep(c) ==
    \/ ReqStart(c)
    \/ ReqScan(c)
    \/ ReqStore(c)
    \/ ReqForwardOk(c)
    \/ ReqForwardFail(c)
    \/ ReqRetry(c)
    \/ ReqFinish(c)

HcStep ==
    \/ HcWake
    \/ HcCheckAlive
    \/ HcCheckCount
    \/ HcCheckSince
    \/ \E o \in ProbeOutcomes : HcProbeResult(o)

HhStep == HhStart \/ HhCount \/ HhFinish

StStep == StStart \/ StCount \/ StCursor \/ StRead \/ StOvCount \/ StOvSince \/ StFinish

\* One client of "/", the monitor and the clock; pools of one and of two
\* backends.
Main(A) == A /\ ObsTripped /\ UNCHANGED <<seenUp, snap, alt, routed, reqNo>>

Next ==
    \/ Main(ReqStart(1))
    \/ Main(ReqScan(1))
    \/ Main(ReqStore(1))
    \/ Main(ReqForwardOk(1))
    \/ Main(ReqForwardFail(1))
    \/ Main(ReqRetry(1))
    \/ Main(ReqFinish(1))
    \/ Main(HcWake)
    \/ Main(HcCheckAlive)
    \/ Main(HcCheckCount)
    \/ Main(HcCheckSince)
    \/ \E o \in ProbeOutcomes : Main(HcProbeResult(o))
    \/ Main(Tick)

Spec == Init /\ [][Next]_vars

\* One client of "/", one client of "/health", the monitor and the clock.
Outage(A) == A /\ ObsSeenUp /\ UNCHANGED <<tripped, snap, alt, routed, reqNo>>

NextOutage ==
    \/ Outage(ReqStart(1))
    \/ Outage(ReqScan(1))
    \/ Outage(ReqStore(1))
    \/ Outage(ReqForwardOk(1))
    \/ Outage(ReqForwardFail(1))
    \/ Outage(ReqRetry(1))
    \/ Outage(ReqFinish(1))
    \/ Outage(HhStart)
    \/ Outage(HhCount)
    \/ Outage(HhFinish)
    \/ Outage(HcWake)
    \/ Outage(HcCheckAlive)
    \/ Outage(HcCheckCount)
    \/ Outage(HcCheckSince)
    \/ \E o \in ProbeOutcomes : Outage(HcProbeResult(o))
    \/ Outage(Tick)

SpecOutage == Init /\ [][NextOutage]_vars

\* Concurrent clients of "/" and the monitor.
Conc(A) == A /\ ObsAlt /\ UNCHANGED <<tripped, seenUp, snap, routed, reqNo>>

NextConc ==
    \/ \E c \in Clients : Conc(ReqStart(c))
    \/ \E c \in Clients : Conc(ReqScan(c))
    \/ \E c \in Clients : Conc(ReqStore(c))
    \/ \E c \in Clients : Conc(ReqForwardOk(c))
    \/ \E c \in Clients : Conc(ReqForwardFail(c))
    \/ \E c \in Clients : Conc(ReqRetry(c))
    \/ \E c \in Clients : Conc(ReqFinish(c))
    \/ Conc(HcWake)
    \/ Conc(HcCheckAlive)
    \/ Conc(HcCheckCount)
    \/ Conc(HcCheckSince)
    \/ \E o \in ProbeOutcomes : Conc(HcProbeResult(o))

SpecConc == Init /\ [][NextConc]_vars

\* A client of "/status", the monitor and the clock.
Status(A) == A /\ ObsSnap /\ UNCHANGED <<tripped, seenUp, alt, routed, reqNo>>

NextStatus ==
    \/ Status(StStart)
    \/ Status(StCount)
    \/ Status(StCursor)
    \/ Status(StRead)
    \/ Status(StOvCount)
    \/ Status(StOvSince)
    \/ Status(StFinish)
    \/ Status(HcWake)
    \/ Status(HcCheckAlive)
    \/ Status(HcCheckCount)
    \/ Status(HcCheckSince)
    \/ \E o \in ProbeOutcomes : Status(HcProbeResult(o))
    \/ Status(Tick)

SpecStatus == Init /\ [][NextStatus]_vars

\* A client of "/health", the monitor and the clock.
Health(A) == A /\ ObsHealthSnap /\ UNCHANGED <<tripped, seenUp, alt, routed, reqNo>>

NextHealth ==
    \/ Health(HhStart)
    \/ Health(HhCount)
    \/ Health(HhFinish)
    \/ Health(HcWake)
    \/ Health(HcCheckAlive)
    \/ Health(HcCheckCount)
    \/ Health(HcCheckSince)
    \/ \E o \in ProbeOutcomes : Health(HcProbeResult(o))
    \/ Health(Tick)

SpecHealth == Init /\ [][NextHealth]_vars

\* A client of "/status", a client of "/" and the clock, from a pool some
\* of whose backends have failed four probes in a row.
TrippedBackend ==
    [Alive |-> FALSE, FailureCount |-> FailureThreshold + 1, LastCheck |-> 0]

InitStatusReq ==
    /\ \E pool \in Pools : \E down \in SUBSET DOMAIN pool :
          /\ urls = pool
          /\ backends = [i \in DOMAIN pool |->
                           IF i \in down THEN TrippedBackend ELSE NewBackend]
    /\ current = 0
    /\ now = 0
    /\ req = [c \in Clients |-> IdleReq]
    /\ hc = [pc |-> "sleep", idx |-> 0]
    /\ hh = IdleHealth
    /\ st = IdleStatus
    /\ refusing = {}
    /\ call = NoCall
    /\ cfg = ConfigOf(urls)
    /\ srv = Serving
    /\ InitHist

StatusReq(A) == A /\ ObsCursorSnap /\ UNCHANGED <<tripped, seenUp, alt, routed, reqNo>>

NextStatusReq ==
    \/ StatusReq(StStart)
    \/ StatusReq(StCount)
    \/ StatusReq(StCursor)
    \/ StatusReq(StRead)
    \/ StatusReq(StOvCount)
    \/ StatusReq(StOvSince)
    \/ StatusReq(StFinish)
    \/ StatusReq(ReqStart(1))
    \/ StatusReq(ReqScan(1))
    \/ StatusReq(ReqStore(1))
    \/ StatusReq(ReqForwardOk(1))
    \/ StatusReq(ReqForwardFail(1))
    \/ StatusReq(ReqRetry(1))
    \/ StatusReq(ReqFinish(1))
    \/ StatusReq(Tick)

SpecStatusReq == InitStatusReq /\ [][NextStatusReq]_vars

\* ------------------------------------------------------ the process's life
\* BACKENDS is unset (or empty), or a list of parts separated by commas; a
\* part is blank, a URL that url.Parse accepts once prefixed ("dup" when its
\* string is that of the first URL of the list, "good" when it is a string
\* of its own), or one that url.Parse rejects.  TLS_CERT and TLS_KEY are set or not; listenOk tells whether
\* ListenAndServeTLS can load the files and bind the port.
Parts == {"blank", "good", "dup", "bad"}

PartLists == UNION {[1 .. n -> Parts] : n \in 1 .. MaxParts}

Configs ==
    {[set |-> FALSE, parts |-> <<>>, cert |-> c, key |-> k, listenOk |-> l] :
        c \in BOOLEAN, k \in BOOLEAN, l \in BOOLEAN}
    \cup
    {[set |-> TRUE, parts |-> p, cert |-> c, key |-> k, listenOk |-> l] :
        p \in PartLists, c \in BOOLEAN, k \in BOOLEAN, l \in BOOLEAN}

\* parseBackendsFromEnv: the parts that are not blank after TrimSpace
NotBlank(part) == part # "blank"
ParseBackendsFromEnv(parts) == SelectSeq(parts, NotBlank)

\* main, lines 146-158: the list from BACKENDS, or the three defaults
ConfiguredBackends(c) ==
    IF c.set THEN ParseBackendsFromEnv(c.parts)
    ELSE [i \in 1 .. DefaultBackends |-> "good"]

Starting ==
    [main |-> "parse", list |-> <<>>, k |-> 0, lis |-> "none", mon |-> FALSE,
     stop |-> FALSE, t0 |-> 0, exit |-> NoExit]

\* log.Fatal, log.Fatalf: os.Exit(1)
Fatal(s) == [s EXCEPT !.main = "exited", !.exit = 1]

InitProcess ==
    /\ cfg \in Configs
    /\ srv = Starting
    /\ urls = Pool(0)
    /\ backends = Pool(0)
    /\ current = 0
    /\ now = 0
    /\ req = [c \in Clients |-> IdleReq]
    /\ hc = [pc |-> "sleep", idx |-> 0]
    /\ hh = IdleHealth
    /\ st = IdleStatus
    /\ refusing = {}
    /\ call = NoCall

\* main that goes on with an empty list of backends.
LifeParseNoCheck ==
    /\ srv.main = "parse"
    /\ srv' = [srv EXCEPT !.list = ConfiguredBackends(cfg),
                          !.main = IF Len(ConfiguredBackends(cfg)) = 0
                                   THEN "serve" ELSE "build",
                          !.k = 1]
    /\ UNCHANGED <<backends, urls, current, now, req, hc, hh, st, refusing, call, cfg>>

\* main, lines 146-162: the list of backends; log.Fatal when it is empty.
LifeParse ==
    /\ srv.main = "parse"
    /\ srv' = IF Len(ConfiguredBackends(cfg)) = 0
              THEN Fatal(srv)
              ELSE [srv EXCEPT !.main = "build", !.k = 1,
                               !.list = ConfiguredBackends(cfg)]
    /\ UNCHANGED <<backends, urls, current, now, req, hc, hh, st, refusing, call, cfg>>

\* main, lines 166-216, one iteration: url.Parse, log.Fatalf on an error,
\* else the proxy is built and AddBackend appends the record.
LifeAddBackend ==
    /\ srv.main = "build"
    /\ IF srv.list[srv.k] = "bad"
       THEN /\ srv' = Fatal(srv)
            /\ UNCHANGED <<urls, backends>>
       ELSE /\ urls' = [i \in 0 .. N |->
                          IF i < N THEN urls[i]
                          ELSE IF srv.list[srv.k] = "dup" /\ N > 0 THEN urls[0]
                          ELSE srv.k]
            /\ backends' = [i \in 0 .. N |->
                              IF i < N THEN backends[i]
                              ELSE [NewBackend EXCEPT !.LastCheck = now]]
            /\ srv' = [srv EXCEPT !.k = srv.k + 1,
                                  !.main = IF srv.k = Len(srv.list)
                                           THEN "serve" ELSE "build"]
    /\ UNCHANGED <<current, now, req, hc, hh, st, refusing, call, cfg>>

\* main, lines 218-284: the monitor goroutine is started, the server is
\* built, signal.Notify registers the stop channel, the listener goroutine
\* is started; main then waits on the channel.
LifeServe ==
    /\ srv.main = "serve"
    /\ srv' = [srv EXCEPT !.main = "wait", !.lis = "check", !.mon = TRUE]
    /\ UNCHANGED <<backends, urls, current, now, req, hc, hh, st, refusing, call, cfg>>

\* The listener goroutine that serves plain HTTP when a TLS variable is
\* missing.
LifeListenAnyway ==
    /\ srv.lis = "check"
    /\ srv' = IF srv.main # "wait" THEN [srv EXCEPT !.lis = "closed"]
              ELSE IF cfg.listenOk THEN [srv EXCEPT !.lis = "serving"]
              ELSE Fatal(srv)
    /\ UNCHANGED <<backends, urls, current, now, req, hc, hh, st, refusing, call, cfg>>

\* The listener goroutine, lines 270-284: log.Fatal when TLS_CERT or
\* TLS_KEY is empty; else ListenAndServeTLS, which serves, or returns an
\* error (log.Fatalf), or returns ErrServerClosed when Shutdown was called.
LifeListen ==
    /\ srv.lis = "check"
    /\ srv' = IF ~(cfg.cert /\ cfg.key) THEN Fatal(srv)
              ELSE IF srv.main # "wait" THEN [srv EXCEPT !.lis = "closed"]
              ELSE IF cfg.listenOk THEN [srv EXCEPT !.lis = "serving"]
              ELSE Fatal(srv)
    /\ UNCHANGED <<backends, urls, current, now, req, hc, hh, st, refusing, call, cfg>>

\* The server accepts a connection and runs loadBalancer for it.
Accept(c) == srv.lis = "serving" /\ ReqStart(c)

\* Startup and one client of "/"; no signal is sent.
Startup(A) == srv.exit = NoExit /\ A /\ UNCHANGED hist

InitStartup == InitProcess /\ InitHist

NextStartup ==
    \/ Startup(LifeParse)
    \/ Startup(LifeAddBackend)
    \/ Startup(LifeServe)
    \/ Startup(LifeListen)
    \/ Startup(Accept(1))
    \/ Startup(ReqScan(1))
    \/ Startup(ReqStore(1))
    \/ Startup(ReqForwardOk(1))
    \/ Startup(ReqForwardFail(1))
    \/ Startup(ReqRetry(1))
    \/ Startup(ReqFinish(1))

SpecStartup == InitStartup /\ [][NextStartup]_vars

\* A configuration under which startup succeeds.
ValidConfig(c) ==
    /\ Len(ConfiguredBackends(c)) > 0
    /\ \A i \in 1 .. Len(ConfiguredBackends(c)) : ConfiguredBackends(c)[i] # "bad"
    /\ c.cert /\ c.key /\ c.listenOk

\* No connection is active: every handler has written its response.
AllIdle == \A c \in Clients : req[c].pc = "idle"

LastInstant == CHOOSE t \in Instants : \A u \in Instants : u <= t

\* SIGINT or SIGTERM is delivered to the stop channel (registered by
\* signal.Notify), at a time whose 30s deadline the clock can show.
LifeSignal ==
    /\ srv.main = "wait"
    /\ ~srv.stop
    /\ now + ShutdownSecs <= LastInstant
    /\ srv' = [srv EXCEPT !.stop = TRUE]
    /\ UNCHANGED <<backends, urls, current, now, req, hc, hh, st, refusing, call, cfg>>

\* main, lines 286-292: <-stop returns; the 30s context is made and
\* server.Shutdown closes the listener, so ListenAndServeTLS returns
\* ErrServerClosed.
LifeStop ==
    /\ srv.main = "wait"
    /\ srv.stop
    /\ srv' = [srv EXCEPT !.main = "shutdown", !.t0 = now,
                          !.lis = IF srv.lis = "serving" THEN "closed" ELSE srv.lis]
    /\ UNCHANGED <<backends, urls, current, now, req, hc, hh, st, refusing, call, cfg>>

\* server.Shutdown that returns nil without waiting for the connections.
LifeShutdownNoWait ==
    /\ srv.main = "shutdown"
    /\ srv' = [srv EXCEPT !.main = "exited", !.exit = 0]
    /\ UNCHANGED <<backends, urls, current, now, req, hc, hh, st, refusing, call, cfg>>

\* server.Shutdown finds every connection idle and returns nil; main logs
\* and returns: exit code 0.
LifeShutdownDone ==
    /\ srv.main = "shutdown"
    /\ AllIdle
    /\ srv' = [srv EXCEPT !.main = "exited", !.exit = 0]
    /\ UNCHANGED <<backends, urls, current, now, req, hc, hh, st, refusing, call, cfg>>

\* The context expires while server.Shutdown waits: it returns ctx.Err()
\* and main calls log.Fatalf.
LifeShutdownForced ==
    /\ srv.main = "shutdown"
    /\ now - srv.t0 >= ShutdownSecs
    /\ srv' = Fatal(srv)
    /\ UNCHANGED <<backends, urls, current, now, req, hc, hh, st, refusing, call, cfg>>

\* The clock during the process's life.  main receives from the stop
\* channel, and server.Shutdown polls the connections (every 500ms at
\* most), in less than a second.
LifeTick ==
    /\ ~(srv.main = "wait" /\ srv.stop)
    /\ ~(srv.main = "shutdown" /\ AllIdle)
    /\ Tick

\* A process that starts under a valid configuration, one client of "/",
\* the signal and the clock.  The scheduler runs main when it can run, and
\* time passes.
Shutdown(A) == srv.exit = NoExit /\ A /\ UNCHANGED hist

InitShutdown == InitProcess /\ ValidConfig(cfg) /\ InitHist

NextShutdown ==
    \/ Shutdown(LifeParse)
    \/ Shutdown(LifeAddBackend)
    \/ Shutdown(LifeServe)
    \/ Shutdown(LifeListen)
    \/ Shutdown(LifeSignal)
    \/ Shutdown(LifeStop)
    \/ Shutdown(LifeShutdownDone)
    \/ Shutdown(LifeShutdownForced)
    \/ Shutdown(LifeTick)
    \/ Shutdown(Accept(1))
    \/ Shutdown(ReqScan(1))
    \/ Shutdown(ReqStore(1))
    \/ Shutdown(ReqForwardOk(1))
    \/ Shutdown(ReqForwardFail(1))
    \/ Shutdown(ReqRetry(1))
    \/ Shutdown(ReqFinish(1))

SpecShutdown ==
    /\ InitShutdown
    /\ [][NextShutdown]_vars
    /\ WF_vars(Shutdown(LifeStop))
    /\ WF_vars(Shutdown(LifeShutdownDone))
    /\ WF_vars(Shutdown(LifeShutdownForced))
    /\ WF_vars(Shutdown(LifeTick))

\* A process started under any configuration, then one client of "/" and
\* the monitor with any probe outcome; no signal is sent.
Steady(A) == srv.exit = NoExit /\ A /\ UNCHANGED hist

\* The monitor goroutine runs once main has started it.
Monitor(A) == srv.mon /\ A

NextSteady ==
    \/ Steady(LifeParse)
    \/ Steady(LifeAddBackend)
    \/ Steady(LifeServe)
    \/ Steady(LifeListen)
    \/ Steady(Accept(1))
    \/ Steady(ReqScan(1))
    \/ Steady(ReqStore(1))
    \/ Steady(ReqForwardOk(1))
    \/ Steady(ReqForwardFail(1))
    \/ Steady(ReqRetry(1))
    \/ Steady(ReqFinish(1))
    \/ Steady(Monitor(HcWake))
    \/ Steady(Monitor(HcCheckAlive))
    \/ Steady(Monitor(HcCheckCount))
    \/ Steady(Monitor(HcCheckSince))
    \/ \E o \in ProbeOutcomes : Steady(Monitor(HcProbeResult(o)))

SpecSteady == InitStartup /\ [][NextSteady]_vars

\* One client of "/" with nothing else running, from pools of one to three
\* backends, each new or tripped, and any cursor.
InitSelect ==
    /\ \E pool \in Pools \cup {DefaultPool} : \E down \in SUBSET DOMAIN pool :
          /\ urls = pool
          /\ backends = [i \in DOMAIN pool |->
                           IF i \in down THEN TrippedBackend ELSE NewBackend]
          /\ current \in DOMAIN pool
    /\ now = 0
    /\ req = [c \in Clients |-> IdleReq]
    /\ hc = [pc |-> "sleep", idx |-> 0]
    /\ hh = IdleHealth
    /\ st = IdleStatus
    /\ refusing = {}
    /\ call = NoCall
    /\ cfg = ConfigOf(urls)
    /\ srv = Serving
    /\ InitHist

Select(A) == A /\ UNCHANGED hist

NextSelect ==
    \/ Select(ReqStart(1))
    \/ Select(ReqScan(1))
    \/ Select(ReqStore(1))
    \/ Select(ReqForwardOk(1))
    \/ Select(ReqForwardFail(1))
    \/ Select(ReqRetry(1))
    \/ Select(ReqFinish(1))

SpecSelect == InitSelect /\ [][NextSelect]_vars

\* The default pool A, B, C with one client sending one request after the
\* other, the monitor, the clock and the scripted environment.
Scenario(A) == A /\ ObsRouted /\ ObsReqNo /\ UNCHANGED <<tripped, seenUp, snap, alt>>

InitScenario == InitPool(DefaultPool) /\ InitHist

NextScenario ==
    \/ Scenario(ReqStart(1))
    \/ Scenario(ReqScan(1))
    \/ Scenario(ReqStore(1))
    \/ Scenario(EnvForwardOk(1))
    \/ Scenario(EnvForwardFail(1))
    \/ Scenario(ReqRetry(1))
    \/ Scenario(ReqFinish(1))
    \/ Scenario(HcWake)
    \/ Scenario(HcCheckAlive)
    \/ Scenario(HcCheckCount)
    \/ Scenario(HcCheckSince)
    \/ Scenario(EnvProbeOk)
    \/ Scenario(EnvProbeRefused)
    \/ Scenario(KillB)
    \/ Scenario(ReviveB)
    \/ Scenario(Tick)

SpecScenario == InitScenario /\ [][NextScenario]_vars

\* The default pool with one client of "/" and nothing else running: no
\* probe sets a backend alive.
Chain(A) == A /\ UNCHANGED hist

NextChain ==
    \/ Chain(ReqStart(1))
    \/ Chain(ReqScan(1))
    \/ Chain(ReqStore(1))
    \/ Chain(ReqForwardOk(1))
    \/ Chain(ReqForwardFail(1))
    \/ Chain(ReqRetry(1))
    \/ Chain(ReqFinish(1))

SpecChain == InitScenario /\ [][NextChain]_vars

\* The methods of one Backend record.
Record(A) == A /\ UNCHANGED hist

InitRecord == RecInit /\ InitHist

NextRecord ==
    \/ \E a \in BOOLEAN : Record(RecSetAlive(a))
    \/ Record(RecIsAlive)
    \/ Record(RecTick)

SpecRecord == InitRecord /\ [][NextRecord]_vars

\* Two concurrent clients of "/" and nothing else, from all-new pools of
\* two and of three backends: no probe runs and the clock stands, so a
\* backend that a forward failure made ineligible stays so.
Race(A) == A /\ ObsReqNo /\ UNCHANGED <<tripped, seenUp, snap, alt, routed>>

InitRace == (InitPool(Pool(2)) \/ InitPool(DefaultPool)) /\ InitHist

NextRace ==
    \/ \E c \in Clients : Race(ReqStart(c))
    \/ \E c \in Clients : Race(ReqScan(c))
    \/ \E c \in Clients : Race(ReqStore(c))
    \/ \E c \in Clients : Race(ReqForwardOk(c))
    \/ \E c \in Clients : Race(ReqForwardFail(c))
    \/ \E c \in Clients : Race(ReqRetry(c))
    \/ \E c \in Clients : Race(ReqFinish(c))

SpecRace == InitRace /\ [][NextRace]_vars

\* The monitor, one client of "/", the clock, and backends that refuse
\* connections or serve as they please: a probe or a forward fails exactly
\* when its backend refuses.
Sweep(A) == A /\ ObsSweep /\ UNCHANGED <<tripped, seenUp, alt, routed, reqNo>>

NextSweep ==
    \/ Sweep(HcWake)
    \/ Sweep(HcCheckAlive)
    \/ Sweep(HcCheckCount)
    \/ Sweep(HcCheckSince)
    \/ Sweep(EnvProbeOk)
    \/ Sweep(EnvProbeRefused)
    \/ Sweep(EnvProbeNon200)
    \/ Sweep(ReqStart(1))
    \/ Sweep(ReqScan(1))
    \/ Sweep(ReqStore(1))
    \/ Sweep(EnvForwardOk(1))
    \/ Sweep(EnvForwardFail(1))
    \/ Sweep(ReqRetry(1))
    \/ Sweep(ReqFinish(1))
    \/ \E i \in Idx : Sweep(EnvRefuse(i))
    \/ \E i \in Idx : Sweep(EnvServe(i))
    \/ Sweep(Tick)

SpecSweep == Init /\ [][NextSweep]_vars

\* Backends that refuse connections for a while and then serve for good:
\* they refuse only at the first instant, and the clock advances once all
\* of them serve.  The ticker keeps waking the monitor, requests keep
\* arriving and being handled, and time passes.
Recovery(A) == A /\ ObsSweepStart /\ UNCHANGED <<tripped, seenUp, alt, routed, reqNo>>

RefuseEarly(i) == now = 0 /\ EnvRefuse(i)

HealedTick == refusing = {} /\ Tick

MonitorStep ==
    \/ Recovery(HcWake)
    \/ Recovery(HcCheckAlive)
    \/ Recovery(HcCheckCount)
    \/ Recovery(HcCheckSince)
    \/ Recovery(EnvProbeOk)
    \/ Recovery(EnvProbeRefused)
    \/ Recovery(EnvProbeNon200)

ClientStep ==
    \/ Recovery(ReqStart(1))
    \/ Recovery(ReqScan(1))
    \/ Recovery(ReqStore(1))
    \/ Recovery(EnvForwardOk(1))
    \/ Recovery(EnvForwardFail(1))
    \/ Recovery(ReqRetry(1))
    \/ Recovery(ReqFinish(1))

NextRecovery ==
    \/ MonitorStep
    \/ ClientStep
    \/ \E i \in Idx : Recovery(RefuseEarly(i))
    \/ \E i \in Idx : Recovery(EnvServe(i))
    \/ Recovery(HealedTick)

SpecRecovery ==
    /\ Init
    /\ [][NextRecovery]_vars
    /\ WF_vars(MonitorStep)
    /\ WF_vars(ClientStep)
    /\ WF_vars(Recovery(HealedTick))

\* One client of "/" and nothing else (no probe sets a backend alive), from
\* every pool of three records that startup builds out of a list of three
\* URLs, each a string of its own or a repetition of the first, and any
\* cursor.
UrlLists ==
    {u \in [DOMAIN DefaultPool -> 1 .. DefaultBackends] :
        \A i \in DOMAIN u : u[i] = i + 1 \/ (i > 0 /\ u[i] = u[0])}

InitForwards ==
    /\ urls \in UrlLists
    /\ backends = [i \in DOMAIN urls |-> NewBackend]
    /\ current \in DOMAIN urls
    /\ now = 0
    /\ req = [c \in Clients |-> IdleReq]
    /\ hc = [pc |-> "sleep", idx |-> 0]
    /\ hh = IdleHealth
    /\ st = IdleStatus
    /\ refusing = {}
    /\ call = NoCall
    /\ cfg = ConfigOf(urls)
    /\ srv = Serving
    /\ InitHist

Forwards(A) == A /\ ObsAttempted /\ UNCHANGED <<tripped, seenUp, snap, routed, reqNo>>

NextForwards ==
    \/ Forwards(ReqStart(1))
    \/ Forwards(ReqScan(1))
    \/ Forwards(ReqStore(1))
    \/ Forwards(ReqForwardOk(1))
    \/ Forwards(ReqForwardFail(1))
    \/ Forwards(ReqRetry(1))
    \/ Forwards(ReqFinish(1))

SpecForwards == InitForwards /\ [][NextForwards]_vars

\* Every goroutine that reads or writes the pool, at one instant: a client
\* of "/", the monitor, and a connection on which "/health" and "/status"
\* are requested one after the other.  Some of the backends refuse
\* connections all along.
InitFrame ==
    /\ \E pool \in Pools : \E down \in SUBSET DOMAIN pool :
          /\ urls = pool
          /\ refusing = down
    /\ backends = [i \in DOMAIN urls |-> NewBackend]
    /\ current = 0
    /\ now = 0
    /\ req = [c \in Clients |-> IdleReq]
    /\ hc = [pc |-> "sleep", idx |-> 0]
    /\ hh = IdleHealth
    /\ st = IdleStatus
    /\ call = NoCall
    /\ cfg = ConfigOf(urls)
    /\ srv = Serving
    /\ InitHist

Frame(A) == A /\ UNCHANGED hist

NextFrame ==
    \/ Frame(ReqStart(1))
    \/ Frame(ReqScan(1))
    \/ Frame(ReqStore(1))
    \/ Frame(EnvForwardOk(1))
    \/ Frame(EnvForwardFail(1))
    \/ Frame(ReqRetry(1))
    \/ Frame(ReqFinish(1))
    \/ Frame(HcWake)
    \/ Frame(HcCheckAlive)
    \/ Frame(HcCheckCount)
    \/ Frame(HcCheckSince)
    \/ Frame(EnvProbeOk)
    \/ Frame(EnvProbeRefused)
    \/ Frame(st.pc = "idle" /\ HhStart)
    \/ Frame(HhCount)
    \/ Frame(HhFinish)
    \/ Frame(hh.pc = "idle" /\ StStart)
    \/ Frame(StCount)
    \/ Frame(StCursor)
    \/ Frame(StRead)
    \/ Frame(StOvCount)
    \/ Frame(StOvSince)
    \/ Frame(StFinish)

SpecFrame == InitFrame /\ [][NextFrame]_vars

\* ===================================================================== claims

\* C1: N consecutive requests to "/", during whose selections all N
\* backends are eligible, are routed to N distinct backends, in the order
\* cursor+1, cursor+2, ... (mod N) from the cursor value before the first.
C1_RoundRobin ==
    \A k \in 1 .. Len(routed.log) :
        (\A j \in 1 .. k : routed.log[j].up = Idx /\ ~routed.log[j].retry)
        => routed.log[k].to = (routed.log[1].cur + k) % N

C1_Witness ==
    /\ Len(routed.log) = N
    /\ \A j \in 1 .. N : routed.log[j].up = Idx /\ ~routed.log[j].retry
    /\ {routed.log[j].to : j \in 1 .. N} = Idx
    /\ routed.log[1].cur = 1

\* C2: once a forward failure has brought a backend's FailureCount above 3,
\* GetNextPeer does not return that backend in the 30 seconds that follow.
InTripWindow(i) == tripped[i] # Never /\ now - tripped[i] < 30

C2_CooldownExclusion ==
    \A c \in Clients : req[c].pc = "store" => ~InTripWindow(req[c].peer)

\* C3: a request to "/" handled while every backend is ineligible is
\* answered 503 without a forward attempt, and a request to "/health"
\* handled while every backend is ineligible is answered 503.
C3_TotalOutage ==
    /\ \A c \in Clients :
          (req[c].pc = "done" /\ c \notin seenUp.req)
          => (req[c].resp = "503" /\ req[c].attempts = 0)
    /\ (hh.pc = "done" /\ ~seenUp.hh) => hh.code = 503

C3_Witness ==
    /\ req[1].pc = "done" /\ 1 \notin seenUp.req /\ req[1].resp = "503"
    /\ hh.pc = "done" /\ ~seenUp.hh /\ hh.code = 503
    /\ N = 2

\* C4: SetAlive(true) leaves FailureCount = 0 and Alive = true;
\* SetAlive(false) leaves Alive = false and FailureCount one above its
\* value before the call; both set LastCheck to the time of the call.
C4_SetAlive ==
    call.op = "SetAlive" =>
        /\ backends[0].LastCheck = call.at
        /\ backends[0].Alive = call.arg
        /\ call.arg => backends[0].FailureCount = 0
        /\ ~call.arg => /\ backends[0].FailureCount = call.before.FailureCount + 1
                        /\ backends[0].FailureCount > call.before.FailureCount

C4_Witness ==
    /\ call.op = "SetAlive" /\ call.arg
    /\ call.before.FailureCount = 4 /\ ~call.before.Alive
    /\ backends[0].FailureCount = 0 /\ call.at = 29

\* C5: one request to "/" causes at most two forward attempts.
C5_AtMostTwoForwards == \A c \in Clients : req[c].attempts <= 2

\* C6: after a forwarding error the request is answered 503 only when no
\* backend other than the failed one was eligible during the selection
\* that followed the failure.
C6_RetryWhenAlternative ==
    \A c \in Clients :
        (req[c].pc = "done" /\ req[c].resp = "503" /\ req[c].failed # NoPeer)
        => alt[c] = {}

\* C7, as claimed: the second request, made while B refuses connections,
\* is forwarded to B, fails there, marks B failed and is retried against C,
\* the cursor ending at C.
C7_SecondRequestFailsOver ==
    (reqNo = 2 /\ req[1].pc = "done" /\ 1 \in refusing)
    => (req[1].failed = 1 /\ req[1].peer = 2 /\ current = 2)

\* C7, amended: request 1 goes to B (cursor 1); request 2 goes straight to
\* C (cursor 2) with no forward failure; a request whose forward to B fails
\* is retried against C, the cursor ending at C; a selection during which B
\* is ineligible returns A or C in turn; a selection during which all three
\* are eligible follows the rotation, so B is selected again after A.
C7_Failover ==
    /\ (reqNo = 1 /\ req[1].pc \in {"forward", "done"})
       => (req[1].peer = 1 /\ current = 1 /\ req[1].fails = 0)
    /\ (reqNo = 2 /\ req[1].pc \in {"forward", "done"})
       => (req[1].peer = 2 /\ current = 2 /\ req[1].fails = 0)
    /\ (req[1].failed = 1 /\ req[1].pc \in {"forward", "done"})
       => (req[1].peer = 2 /\ current = 2 /\ req[1].attempts = 2)
    /\ (req[1].pc = "done" /\ req[1].peer \in {0, 2}) => req[1].resp = "proxied"
    /\ \A k \in 1 .. Len(routed.log) :
          LET e == routed.log[k] IN
          /\ 1 \in e.down => e.to = (IF e.cur = 2 THEN 0 ELSE 2)
          /\ e.up = Idx => e.to = (e.cur + 1) % 3

C7_Witness ==
    /\ Len(routed.log) = 3
    /\ routed.log[1].retry /\ routed.log[1].to = 2 /\ 1 \in routed.log[1].down
    /\ routed.log[2].to = 0
    /\ routed.log[3].to = 1

Paused(i) ==
    /\ backends[i].FailureCount = 3
    /\ now - backends[i].LastCheck < 30

C9_BreakerOpensAtThree ==
    [][/\ (hc.pc # "probe" /\ hc'.pc = "probe") => ~Paused(hc.idx)
       /\ \A c \in Clients : Selecting(c) => ~Paused(req'[c].peer)]_vars

C11_RecordInvariant ==
    /\ [](\A i \in Idx : /\ backends[i].Alive => backends[i].FailureCount = 0
                         /\ backends[i].FailureCount >= 0)
    /\ [][\A i \in Idx :
            /\ (\/ backends'[i].Alive # backends[i].Alive
                \/ backends'[i].FailureCount # backends[i].FailureCount)
               => backends'[i].LastCheck = now
            /\ backends'[i].LastCheck >= backends[i].LastCheck]_vars

C11_Witness ==
    /\ N = 2
    /\ ~backends[0].Alive /\ backends[0].FailureCount = 2
    /\ backends[0].LastCheck = 29
    /\ backends[1].Alive /\ backends[1].LastCheck = 30

\* C12: statusHandler decides the cooldown override of an entry on the
\* FailureCount and LastCheck of the same write as the entry it read under
\* the lock.
C12_NoPartialReads ==
    [][/\ (st.pc = "ovCount" /\ st'.pc # "ovCount")
          => backends[st.i].FailureCount = st.entry.failure_count
       /\ (st.pc = "ovSince" /\ st'.pc # "ovSince")
          => FormatRFC3339(backends[st.i].LastCheck) = st.entry.last_check]_vars

\* C13: the number of records never changes and the cursor is always an
\* index of the pool.
C13_PoolInvariant ==
    /\ [](current \in Idx /\ DOMAIN backends = Idx)
    /\ [][urls' = urls /\ DOMAIN backends' = DOMAIN backends]_vars

C13_Witness ==
    /\ N = 2 /\ current = 1
    /\ req[1].pc = "forward" /\ req[1].failed = 0 /\ req[1].peer = 1
    /\ req[2].pc = "forward" /\ hc.pc = "probe"

\* C14: a /health request during which no record's eligibility changes is
\* answered 200 when some backend is eligible, with X the number of
\* eligible backends and Y the pool size, and 503 when none is; no step of
\* the handler changes a record or the cursor.
C14_HealthRoute ==
    /\ []((hh.pc = "done" /\ ~snap.moved)
          => /\ hh.code \in {200, 503}
             /\ hh.code = 200 <=> snap.up >= 1
             /\ hh.code = 503 <=> snap.up = 0
             /\ hh.code = 200 => (hh.count = snap.up /\ hh.total = N))
    /\ [][hh' # hh => (backends' = backends /\ current' = current)]_vars

C14_Witness ==
    /\ hh.pc = "done" /\ ~snap.moved
    /\ N = 2 /\ snap.up = 1 /\ hh.code = 200 /\ hh.count = 1 /\ hh.total = 2

\* C15: a /status response has total_backends = N and one entry per
\* backend, in pool order; current_index is the cursor when no selection
\* stored it meanwhile; it is 503 "degraded" when healthy_backends = 0 and
\* 200 "operational" when healthy_backends >= 1.
C15_StatusRoute ==
    st.pc = "done" =>
        /\ st.total = N
        /\ Len(st.entries) = N
        /\ \A i \in Idx : st.entries[i + 1].url = urls[i]
        /\ ~snap.moved => st.index = current
        /\ st.healthy = 0 <=> (st.code = 503 /\ st.status = "degraded")
        /\ st.healthy >= 1 <=> (st.code = 200 /\ st.status = "operational")

C15_Witness ==
    /\ st.pc = "done" /\ ~snap.moved
    /\ N = 2 /\ current = 1 /\ st.index = 1
    /\ st.healthy = 0 /\ st.code = 503 /\ Len(st.entries) = 2
    /\ Eligible = {}

\* C16: in a /status response the entries reported alive are as many as
\* healthy_backends, and the alive of each entry is false when the entry's
\* failure_count is above 3 and its last_check less than 30 seconds old,
\* and the Alive flag read with them otherwise.
AliveEntries == {i \in 1 .. Len(st.entries) : st.entries[i].alive}

OverrideOf(entry, t) ==
    IF OverThreshold(entry.failure_count) /\ WithinCooldown(entry.last_check, t)
    THEN FALSE
    ELSE entry.alive

C16_CountMatches == st.pc = "done" => Cardinality(AliveEntries) = st.healthy

C16_OverrideMatches ==
    (st.pc \in {"ovCount", "ovSince"} /\ Len(st'.entries) = Len(st.entries) + 1)
    => st'.entries[Len(st'.entries)].alive = OverrideOf(st.entry, now)

C16_EntriesConsistent == []C16_CountMatches /\ [][C16_OverrideMatches]_vars

\* C17: when the list of backends is empty, or a backend URL does not
\* parse, or TLS_CERT or TLS_KEY is missing, the listener never serves and
\* no request is handled, the process does not exit with code 0, and as
\* long as it has not exited 1 a step of startup remains to be taken; the
\* listener serves only under a valid configuration.
BadConfig ==
    \/ Len(ConfiguredBackends(cfg)) = 0
    \/ \E i \in 1 .. Len(ConfiguredBackends(cfg)) : ConfiguredBackends(cfg)[i] = "bad"
    \/ ~cfg.cert
    \/ ~cfg.key

StartupPending == srv.main \in {"parse", "build", "serve"} \/ srv.lis = "check"

C17_FailFast ==
    /\ BadConfig =>
          /\ srv.lis # "serving"
          /\ \A c \in Clients : req[c] = IdleReq
          /\ srv.exit \in {NoExit, 1}
          /\ srv.exit = NoExit => StartupPending
    /\ srv.lis = "serving" => ~BadConfig

C17_Witness ==
    /\ cfg.set /\ cfg.parts = <<"good", "bad">> /\ cfg.cert /\ cfg.key
    /\ N = 1 /\ srv.exit = 1

\* C18: once main has received the signal no new request is accepted and
\* the requests in flight go on; the process exits 0 only when they have
\* all completed, and does so when they complete before 30 seconds have
\* passed; it exits non-zero from the shutdown only when the 30 seconds
\* have passed; after the signal the process eventually exits.
ShutdownBegun == srv.main = "shutdown"

C18_GracefulShutdown ==
    /\ [](srv.exit = 0 => AllIdle)
    /\ [][ShutdownBegun =>
            \A c \in Clients : req[c].pc = "idle" => req'[c].pc = "idle"]_vars
    /\ [][(ShutdownBegun /\ srv'.exit = 1) => now - srv.t0 >= ShutdownSecs]_vars
    /\ (ShutdownBegun /\ AllIdle /\ now - srv.t0 < ShutdownSecs) ~> (srv.exit = 0)
    /\ srv.stop ~> (srv.exit # NoExit)

C18_Witness ==
    /\ srv.exit = 0 /\ srv.lis = "closed"
    /\ srv.t0 = 0 /\ now = 29
    /\ \E i \in Idx : backends[i].LastCheck = 29

\* C19: once the listener serves, no step of a request or of the monitor
\* changes the state of the process, which has not exited; the pool holds
\* a backend whenever the listener serves and whenever GetNextPeer calls
\* NextIndex.
C19_SteadyState ==
    /\ [](srv.lis = "serving" => (N >= 1 /\ srv.exit = NoExit))
    /\ [][srv.lis = "serving" => srv' = srv]_vars
    /\ [][(\E c \in Clients : Calling(c)) => N >= 1]_vars

C19_Witness ==
    /\ srv.lis = "serving" /\ srv.exit = NoExit
    /\ N = 2 /\ Eligible = {}
    /\ req[1].pc = "done" /\ req[1].resp = "503" /\ req[1].fails = 2
    /\ \E i \in Idx : backends[i].FailureCount = 4

\* C20: a GetNextPeer call that nothing interferes with returns the backend
\* at (cursor + 1 + k) mod N for the least k in 0..N-1 whose backend is
\* eligible and stores that index in the cursor; its loop makes at most N
\* tests, of different backends; it returns no backend exactly when no
\* backend is eligible.
FirstEligibleAfter(cur) ==
    LET Up(k) == IsAlive(backends[(cur + 1 + k) % N], now)
        least == CHOOSE k \in 0 .. (N - 1) : Up(k) /\ \A j \in 0 .. (k - 1) : ~Up(j)
    IN (cur + 1 + least) % N

C20_Selector ==
    /\ [](\A c \in Clients :
            req[c].pc = "scan" => req[c].i - req[c].next \in 0 .. (N - 1))
    /\ [][\A c \in Clients :
            /\ Selecting(c) => (Eligible # {} /\ req'[c].peer = FirstEligibleAfter(current))
            /\ (req[c].pc = "store" /\ req'[c].pc # "store") => current' = req[c].peer
            /\ (req[c].pc = "scan" /\ req'[c].pc = "done") => Eligible = {}]_vars

C20_Witness ==
    /\ N = 3 /\ current = 1 /\ Eligible = {1}
    /\ req[1].pc = "store" /\ req[1].peer = 1 /\ req[1].selects = 1

\* C21: over a pool of N >= 2 backends that all stay eligible, the first
\* two selections of two concurrent handlers return different backends, and
\* every store of a selection advances the cursor by one (no update of the
\* cursor is lost).
C21_DistinctPeers ==
    (N >= 2 /\ Eligible = Idx /\ reqNo = 2
     /\ \A c \in Clients : req[c].pc = "store" /\ req[c].selects = 1)
    => req[1].peer # req[2].peer

C21_NoLostUpdate ==
    \A c \in Clients :
        (N >= 2 /\ Eligible = Idx /\ req[c].pc = "store" /\ req'[c].pc # "store")
        => current' = (current + 1) % N

C21_AtomicAdvance == []C21_DistinctPeers /\ [][C21_NoLostUpdate]_vars

\* C22: a step of the sweep's test of a backend (line 102) taken while that
\* backend is in cooldown (FailureCount > 3 and less than 30 seconds since
\* LastCheck) sends no probe and changes no record, and the test ends by
\* passing to the next backend.
InCooldown(i) == backends[i].FailureCount > 3 /\ now - backends[i].LastCheck < 30

Testing == hc.pc \in {"chkAlive", "chkCount", "chkSince"}

C22_CooldownSkip ==
    [][(Testing /\ hc' # hc /\ InCooldown(hc.idx))
       => /\ hc'.pc # "probe"
          /\ backends' = backends
          /\ hc.pc = "chkSince"
             => hc' = (IF hc.idx + 1 < N
                       THEN [pc |-> "chkAlive", idx |-> hc.idx + 1]
                       ELSE [pc |-> "sleep", idx |-> 0])]_vars

C22_Witness ==
    /\ N = 2 /\ hc.pc = "sleep" /\ snap.up = 2
    /\ now = 29 /\ \A i \in Idx : InCooldown(i) /\ backends[i].LastCheck = 0

\* C23: a step of the test of a backend that is not in cooldown stays on
\* that backend, so its visit ends with a probe; the probe's answer marks
\* that backend and no other, failed when the backend refuses or answers
\* non-200 and alive when it answers 200; after the answer, failed or not,
\* the sweep passes to the next backend in pool order, and it ends after the
\* last one; every step of a sweep moves it forward.
MarkedFailed(b, t) ==
    [Alive |-> FALSE, FailureCount |-> b.FailureCount + 1, LastCheck |-> t]

MarkedAlive(t) == [Alive |-> TRUE, FailureCount |-> 0, LastCheck |-> t]

NextVisit ==
    IF hc.idx + 1 < N
    THEN [pc |-> "chkAlive", idx |-> hc.idx + 1]
    ELSE [pc |-> "sleep", idx |-> 0]

Rank(pc) ==
    IF pc = "chkAlive" THEN 0
    ELSE IF pc = "chkCount" THEN 1
    ELSE IF pc = "chkSince" THEN 2
    ELSE 3

C23_SweepOutcome ==
    /\ [][(Testing /\ hc' # hc /\ ~InCooldown(hc.idx))
          => (hc'.idx = hc.idx /\ hc'.pc # "sleep" /\ backends' = backends)]_vars
    /\ [][(hc.pc = "probe" /\ hc' # hc)
          => /\ backends'[hc.idx] = (IF hc.idx \in refusing
                                     THEN MarkedFailed(backends[hc.idx], now)
                                     ELSE MarkedAlive(now))
             /\ \A j \in Idx \ {hc.idx} : backends'[j] = backends[j]
             /\ hc' = NextVisit]_vars
    /\ [][(hc.pc = "sleep" /\ hc' # hc) => hc' = [pc |-> "chkAlive", idx |-> 0]]_vars
    /\ [][(hc.pc # "sleep" /\ hc' # hc)
          => \/ hc' = NextVisit
             \/ hc'.idx = hc.idx /\ hc'.pc # "sleep" /\ Rank(hc'.pc) > Rank(hc.pc)]_vars

C23_Witness ==
    /\ N = 2 /\ hc.pc = "sleep" /\ snap.moved /\ snap.up = 0
    /\ backends[0] = [Alive |-> FALSE, FailureCount |-> 1, LastCheck |-> 29]
    /\ backends[1] = [Alive |-> TRUE, FailureCount |-> 0, LastCheck |-> 29]

\* C24: for every pool that startup accepts, the ErrorHandler of the
\* backend a forward failed against marks that backend's own record failed
\* (Alive false, FailureCount one higher, LastCheck the current time) and
\* changes no other record, and the record is marked when the retry
\* selection begins.
C24_OwnRecordMarked ==
    \A c \in Clients :
        (req[c].pc = "forward" /\ req'[c].pc = "retry")
        => /\ backends'[req[c].peer] = MarkedFailed(backends[req[c].peer], now)
           /\ \A j \in Idx \ {req[c].peer} : backends'[j] = backends[j]

C24_MarkedBeforeRetry ==
    \A c \in Clients : req[c].pc = "retry" => ~backends[req[c].failed].Alive

C25_OnlyProbeRestores ==
    /\ [][req' # req => \A i \in Idx : backends'[i].Alive => backends[i].Alive]_vars
    /\ [][\A i \in Idx :
            (~IsAlive(backends[i], now) /\ IsAlive(backends'[i], now'))
            => (hc.pc = "probe" /\ hc.idx = i /\ hc' # hc /\ i \notin refusing)]_vars

C25_Witness ==
    /\ N = 2 /\ now = 30
    /\ backends[0] = [Alive |-> FALSE, FailureCount |-> 4, LastCheck |-> 0]
    /\ Eligible = {1}
    /\ req[1].pc = "done" /\ req[1].failed = 0 /\ req[1].resp = "proxied"

\* C26: once every backend answers 200 to its probes and no forward fails
\* (which is so from the moment the clock has advanced), every backend
\* eventually is eligible and stays eligible for ever, and is selected
\* again and again; at the end of a sweep begun after that moment every
\* backend is eligible save those whose cooldown had not expired when the
\* sweep began.
Healed == now > 0

C26_RecoveryLiveness ==
    /\ Healed ~> [](Eligible = Idx)
    /\ \A i \in DOMAIN Pool(2) :
          (Healed /\ i \in Idx) ~> (req[1].pc = "store" /\ req[1].peer = i)
    /\ [][(hc.pc # "sleep" /\ hc'.pc = "sleep" /\ snap.up > 0)
          => \A i \in Idx :
                \/ IsAlive(backends'[i], now')
                \/ /\ backends'[i].FailureCount > 3
                   /\ snap.up - backends'[i].LastCheck < 30]_vars

C26_Witness ==
    /\ N = 2 /\ now = 30 /\ refusing = {}
    /\ backends[0] = [Alive |-> FALSE, FailureCount |-> 4, LastCheck |-> 0]
    /\ hc = [pc |-> "probe", idx |-> 0] /\ snap.up = 30
    /\ backends[1].Alive /\ backends[1].LastCheck = 29

\* C27: a request to "/" gets one response, a proxied one or a 503, written
\* once; with no probe setting a backend alive, no forward attempt of a
\* request goes to a backend the request was already forwarded to, and a
\* request makes at most N forward attempts.
C27_OneResponse ==
    \A c \in Clients :
        /\ req[c].pc = "done" <=> req[c].resp \in {"proxied", "503"}
        /\ req[c].pc # "done" => req[c].resp = "none"
        /\ req[c].attempts <= N

C27_NoRepeatedAttempt ==
    \A c \in Clients :
        (req[c].pc = "store" /\ req'[c].pc = "forward") => req[c].peer \notin alt[c]

C27_RequestTermination == []C27_OneResponse /\ [][C27_NoRepeatedAttempt]_vars

\* C28: the cursor changes only in the step in which a selection that
\* found a backend stores that backend's index; a GetNextPeer call that
\* finds none leaves it as it was, and so does every step that changes a
\* record (SetAlive), every step of the monitor and every step of the
\* handlers of "/health" and "/status".
C28_StoredBySelection ==
    current' # current
    => \E c \in Clients :
          /\ req[c].pc = "store" /\ req'[c].pc \in {"forward", "done"}
          /\ req[c].peer \in Idx

C28_StoresPeer ==
    \A c \in Clients :
        (req[c].pc = "store" /\ req'[c].pc # "store") => current' = req[c].peer

C28_KeptOtherwise ==
    /\ (\E c \in Clients : req[c].pc = "scan" /\ req'[c].pc = "done")
       => current' = current
    /\ (backends' # backends \/ hc' # hc \/ hh' # hh \/ st' # st)
       => current' = current

C28_CursorFrame ==
    [][C28_StoredBySelection /\ C28_StoresPeer /\ C28_KeptOtherwise]_vars

C28_Witness ==
    /\ N = 2 /\ Eligible = {} /\ current = 1
    /\ req[1].pc = "done" /\ req[1].resp = "503" /\ req[1].attempts = 0
    /\ st.pc = "done" /\ st.index = 1 /\ hc.pc = "chkSince"

====
